---- MODULE Spec2Model ----
(***************************************************************************)
(* Model of authify's authorization-code flow: the callback listener       *)
(* (src/oidc/callback_listener.rs), the part of the client it uses        *)
(* (src/oidc/oidc_client.rs) and the orchestration in src/main.rs.        *)
(*                                                                         *)
(* Option<T> is a sequence of length 0 (None) or 1 (Some).  A oneshot      *)
(* channel is the sequence of the values sent through it; the receiver     *)
(* resolves to its first element.                                          *)
(***************************************************************************)
EXTENDS Naturals, Sequences, FiniteSets, TLC

\* ------------------------------------------------------------- bounds ---
\* Number of callback requests that arrive during one run.
NumRequests == 2
MaxTokenLen == 7
MaxValueLen == 2
\* generate_state: (0..32)
STATE_LEN == 32

\* Number of calls a caller makes on one client after constructing it.
MaxCalls == 4

\* ---------------------------------------------------------- constants ---
LISTEN_PORT == 3030

None == << >>
Some(v) == << v >>

Handlers == 1 .. NumRequests

\* Values a `code` query parameter takes (a real code, and the empty one
\* of `?code=`); the tokens generate_state may
\* produce; the values a callback's `state` parameter takes (with the two
\* tokens a callback's state is equal to the stored one, different, or absent).
Codes == { "abc123", "" }
StateTokens == { "S1", "S2" }
CallbackStates == { "S1" }

\* The address and path the warp server is bound to.
ListenUrl == [ host |-> "127.0.0.1", port |-> LISTEN_PORT, path |-> << "callback" >> ]

\* Values of --redirect-url: the default and two other registrations.
RedirectUrls ==
    { ListenUrl,
      [ host |-> "127.0.0.1", port |-> 8080, path |-> << "callback" >> ],
      [ host |-> "127.0.0.1", port |-> LISTEN_PORT, path |-> << "cb" >> ] }

\* Query strings as warp::query deserialises them: HashMap<String, String>.
AllParams ==
    { p \in UNION { [ K -> Codes \cup CallbackStates ] : K \in SUBSET { "code", "state" } } :
        /\ ("code" \in DOMAIN p => p["code"] \in Codes)
        /\ ("state" \in DOMAIN p => p["state"] \in CallbackStates) }

VARIABLES
    client,        \* OidcClient: redirect_url, client_id, client_secret, state
    mainPc,        \* position of handle_authorization_code_flow
    browser_ok,    \* Option<bool>: result of open::that(auth_url)
    code_tx,       \* Arc<Mutex<Option<oneshot::Sender<String>>>>
    shutdown_tx,   \* Arc<Mutex<Option<oneshot::Sender<()>>>>
    code_ch,       \* values sent on the code channel
    shutdown_ch,   \* values sent on the shutdown channel
    code_by,       \* handlers that called send on the code sender (history)
    shutdown_by,   \* handlers that called send on the shutdown sender (history)
    server,        \* the spawned warp server task
    req,           \* per request: Option<[target, params]>
    hpc,           \* per request: position of its handle_callback future
    reply,         \* per request: Option<reply body kind>
    listenResult,  \* Option<Result<String, RecvError>> returned by listen()
    tokenReq,      \* Option<form posted by get_token>
    args,          \* Args: the parsed command line
    http_log,      \* the HTTP requests sent so far, in order
    urls,          \* the URLs build_authorization_url has returned, in order
    token_endpoint_response,  \* Option<Result<TokenEndpointResponse, OidcError>>
    user_info,     \* Option<Result<Value, OidcError>>
    output,        \* what main has printed: lines of stdout and stderr
    op,            \* the operation a single call is examined for
    response,      \* the provider's answer to that call
    outcome        \* Option<what the call returned and printed>

flowVars == << args, http_log, urls, token_endpoint_response, user_info, output >>

probeVars == << op, response, outcome >>

vars == << client, mainPc, browser_ok, code_tx, shutdown_tx, code_ch, shutdown_ch,
           code_by, shutdown_by, server, req, hpc, reply, listenResult, tokenReq,
           flowVars, probeVars >>

listenerVars == << code_tx, shutdown_tx, code_ch, shutdown_ch, code_by, shutdown_by,
                   server, req, hpc, reply >>

\* ------------------------------------------------------ pure helpers ----
\* HashMap::get
ParamsGet(params, key) == IF key \in DOMAIN params THEN Some(params[key]) ELSE None

\* Option::clone in place of take: the content stays behind.
TakeKeep(opt) == [ taken |-> opt, left |-> opt ]

\* Option::take: yields the content and leaves None behind.
Take(opt) == [ taken |-> opt, left |-> None ]

\* oneshot::Sender::send: delivers iff the receiver still exists; the
\* handler discards the result (`let _ =`).
Send(ch, v, rxAlive) == IF rxAlive THEN Append(ch, v) ELSE ch

\* warp::path("callback") on the bound socket.
Routes(target) ==
    /\ target.host = ListenUrl.host
    /\ target.port = ListenUrl.port
    /\ Len(target.path) >= 1
    /\ target.path[1] = ListenUrl.path[1]

\* A handler that treats an empty code as a missing one.
CodeParamNonEmpty(params) ==
    IF ParamsGet(params, "code") = Some("") THEN None ELSE ParamsGet(params, "code")

\* A handler that accepts the code only with the stored CSRF state.
CodeParamChecked(params) ==
    IF ParamsGet(params, "state") = client.state THEN ParamsGet(params, "code") ELSE None

\* params.get("code") at the head of handle_callback.
CodeParam(params) == ParamsGet(params, "code")

\* The shared state a handler sees.
Chans == [ code_tx |-> code_tx, shutdown_tx |-> shutdown_tx,
           code_ch |-> code_ch, shutdown_ch |-> shutdown_ch ]

\* The receivers: code_rx lives until listen() returns, shutdown_rx until
\* the graceful-shutdown future resolves or the server task is dropped.
CodeRxAlive == listenResult = None
ShutdownRxAlive == server = "running"

\* The wrong key: the `state` parameter is sent when the query has one.
SendCodeState(params, s, rxAlive) ==
    LET t == Take(s.code_tx)
        v == IF "state" \in DOMAIN params THEN params["state"] ELSE CodeParam(params)[1]
    IN
    [ s |-> [ s EXCEPT !.code_tx = t.left,
                       !.code_ch = IF t.taken # None
                                   THEN Send(s.code_ch, v, rxAlive)
                                   ELSE s.code_ch ],
      called |-> t.taken # None ]

\* The sender is taken and dropped, nothing is sent.
SendCodeDropped(params, s, rxAlive) ==
    [ s |-> [ s EXCEPT !.code_tx = Take(s.code_tx).left ], called |-> FALSE ]

\* `if let Some(tx) = code_tx.lock().await.take() { let _ = tx.send(code) }`
\* The guard of the mutex lives to the end of the statement, so take and
\* send are one step.  `called` tells whether send was called.
SendCode(params, s, rxAlive) ==
    LET t == Take(s.code_tx) IN
    [ s |-> [ s EXCEPT !.code_tx = t.left,
                       !.code_ch = IF t.taken # None
                                   THEN Send(s.code_ch, CodeParam(params)[1], rxAlive)
                                   ELSE s.code_ch ],
      called |-> t.taken # None ]

\* The shutdown sender is used without being taken out of the Option.
SendShutdownNoTake(s, rxAlive) ==
    [ s |-> [ s EXCEPT !.shutdown_ch = IF s.shutdown_tx # None
                                       THEN Send(s.shutdown_ch, "unit", rxAlive)
                                       ELSE s.shutdown_ch ],
      called |-> s.shutdown_tx # None ]

\* The shutdown statement is missing.
SendShutdownMissing(s, rxAlive) == [ s |-> s, called |-> FALSE ]

\* `if let Some(tx) = shutdown_tx.lock().await.take() { let _ = tx.send(()) }`
SendShutdown(s, rxAlive) ==
    LET t == Take(s.shutdown_tx) IN
    [ s |-> [ s EXCEPT !.shutdown_tx = t.left,
                       !.shutdown_ch = IF t.taken # None
                                       THEN Send(s.shutdown_ch, "unit", rxAlive)
                                       ELSE s.shutdown_ch ],
      called |-> t.taken # None ]

\* Every request to the route signals shutdown.
NoCodeEffectShutdown(s) ==
    [ s EXCEPT !.shutdown_tx = None,
               !.shutdown_ch = IF s.shutdown_tx # None THEN Append(s.shutdown_ch, "unit")
                               ELSE s.shutdown_ch ]

\* The else branch of handle_callback: only a reply is built.
NoCodeEffect(s) == s

\* One whole run of handle_callback on the shared state s.
HandleCallbackEffect(params, s, codeRxAlive, shutdownRxAlive) ==
    IF CodeParam(params) # None
    THEN SendShutdown(SendCode(params, s, codeRxAlive).s, shutdownRxAlive).s
    ELSE NoCodeEffect(s)

\* The two bodies exchanged.
ReplyForSwapped(params) ==
    IF CodeParam(params) = None
    THEN [ ok |-> TRUE, body |-> "Authorization code received. You can close this window." ]
    ELSE [ ok |-> TRUE, body |-> "No authorization code found in the query." ]

\* The reply handle_callback returns; both branches are Ok(html).
ReplyFor(params) ==
    IF CodeParam(params) # None
    THEN [ ok |-> TRUE, body |-> "Authorization code received. You can close this window." ]
    ELSE [ ok |-> TRUE, body |-> "No authorization code found in the query." ]

\* The route closure (and with it both Arcs) is dropped once the server task
\* has ended and no handler future still holds a clone.
InFlight(h) == hpc[h] \in { "recv", "code_done" }
RouteDropped == server \in { "stopped", "crashed" } /\ \A h \in Handlers : ~InFlight(h)

\* code_rx.await: the first value sent, or RecvError once the sender is
\* dropped unsent, otherwise pending.
RecvCode(ch, senderDropped) ==
    IF ch # << >> THEN Some([ ok |-> TRUE, val |-> Head(ch) ])
    ELSE IF senderDropped THEN Some([ ok |-> FALSE, val |-> "RecvError" ])
    ELSE None

\* shutdown_rx.await.ok(): Some(()) on a value, None on a dropped sender;
\* here wrapped once more, the outer None meaning "still pending".
RecvShutdown(ch, senderGone) ==
    IF ch # << >> THEN Some(Some(Head(ch)))
    ELSE IF senderGone THEN Some(None)
    ELSE None

\* A closed channel mapped to an empty code (unwrap_or_default).
ListenMatchOkDefault(r) ==
    IF r # None /\ ~r[1].ok THEN Some([ ok |-> TRUE, val |-> "" ]) ELSE r

\* `match code_rx.await { Ok(code) => Ok(code), Err(e) => Err(Box::new(e)) }`
ListenMatch(r) == r

\* The form get_token posts.
TokenForm(c, code) ==
    [ grant_type |-> "authorization_code", code |-> code,
      redirect_uri |-> c.redirect_url, client_id |-> c.client_id,
      client_secret |-> c.client_secret ]

\* ------------------------------------------------------ oidc_client -----
\* Result<T, E>
Ok(x) == [ ok |-> TRUE, val |-> x ]
Err(e) == [ ok |-> FALSE, val |-> e ]

\* serde_json::Value, as far as the client looks at it.  A JSON object is a
\* record of its keys; Absent marks a key the object does not have.  The
\* digits of a number are kept as text, its kind is the one of
\* serde_json::Number (PosInt, NegInt, Float).
Absent == [ t |-> "absent", v |-> "" ]
Null == [ t |-> "null", v |-> "" ]
Str(s) == [ t |-> "str", v |-> s ]
PosInt(d) == [ t |-> "posint", v |-> d ]
NegInt(d) == [ t |-> "negint", v |-> d ]
Float(d) == [ t |-> "float", v |-> d ]

\* json["key"]: Null for a missing key.
Index(json, key) == IF json[key].t = "absent" THEN Null ELSE json[key]

\* Value::as_str
as_str(v) == IF v.t = "str" THEN Some(v.v) ELSE None

\* Value::as_i64 cast: a negative integer passes.
as_i64(v) == IF v.t \in { "posint", "negint" } THEN Some(v.v) ELSE None

\* Value::as_u64
as_u64(v) == IF v.t = "posint" THEN Some(v.v) ELSE None

\* StatusCode::is_success
is_success(status) == status >= 200 /\ status <= 299

\* The errors of the client.  `new` and discovery return Box<dyn Error>
\* built from a message; the other operations return OidcError.
NetworkError == [ kind |-> "NetworkError", what |-> "", status |-> 0, body |-> Null ]
StatusError(status) ==
    [ kind |-> "Message", what |-> "Failed to fetch well-known configuration",
      status |-> status, body |-> Null ]
MissingEndpoint(field) ==
    [ kind |-> "Message", what |-> field, status |-> 0, body |-> Null ]
InvalidResponse(what, status, body) ==
    [ kind |-> "InvalidResponse", what |-> what, status |-> status, body |-> body ]
MissingField(field) ==
    [ kind |-> "MissingField", what |-> field, status |-> 0, body |-> Null ]

\* A missing jwks_uri defaulted to the empty string.
ParseWellKnownsDefaultJwks(json) ==
    IF as_str(Index(json, "authorization_endpoint")) = None
    THEN Err(MissingEndpoint("authorization_endpoint"))
    ELSE IF as_str(Index(json, "token_endpoint")) = None
    THEN Err(MissingEndpoint("token_endpoint"))
    ELSE IF as_str(Index(json, "userinfo_endpoint")) = None
    THEN Err(MissingEndpoint("userinfo_endpoint"))
    ELSE Ok([ auth_url |-> as_str(Index(json, "authorization_endpoint"))[1],
              token_url |-> as_str(Index(json, "token_endpoint"))[1],
              user_info_url |-> as_str(Index(json, "userinfo_endpoint"))[1],
              jwks_url |-> IF as_str(Index(json, "jwks_uri")) = None THEN ""
                           ELSE as_str(Index(json, "jwks_uri"))[1] ])

\* The body of fetch_well_knowns_from_custom_url after the status check:
\* the struct expression evaluates its four fields in order, each with `?`.
ParseWellKnowns(json) ==
    IF as_str(Index(json, "authorization_endpoint")) = None
    THEN Err(MissingEndpoint("authorization_endpoint"))
    ELSE IF as_str(Index(json, "token_endpoint")) = None
    THEN Err(MissingEndpoint("token_endpoint"))
    ELSE IF as_str(Index(json, "userinfo_endpoint")) = None
    THEN Err(MissingEndpoint("userinfo_endpoint"))
    ELSE IF as_str(Index(json, "jwks_uri")) = None
    THEN Err(MissingEndpoint("jwks_uri"))
    ELSE Ok([ auth_url |-> as_str(Index(json, "authorization_endpoint"))[1],
              token_url |-> as_str(Index(json, "token_endpoint"))[1],
              user_info_url |-> as_str(Index(json, "userinfo_endpoint"))[1],
              jwks_url |-> as_str(Index(json, "jwks_uri"))[1] ])

\* fetch_well_knowns_from_custom_url on the provider's answer; None is a
\* request that failed in reqwest.
FetchWellKnowns(resp) ==
    IF resp = None THEN Err(NetworkError)
    ELSE IF ~is_success(resp[1].status) THEN Err(StatusError(resp[1].status))
    ELSE ParseWellKnowns(resp[1].body)

\* The placeholder `new` builds before discovery.
EmptyWellKnowns == [ auth_url |-> "", token_url |-> "", user_info_url |-> "", jwks_url |-> "" ]

\* The client as `new` has it before discovery.
Placeholder(a) ==
    [ issuer |-> a.issuer, client_id |-> a.client_id, client_secret |-> a.client_secret,
      redirect_url |-> a.redirect_url, scope |-> a.scope,
      well_knowns |-> EmptyWellKnowns, state |-> a.state ]

\* OidcClient::new: the struct with placeholders, then discovery with `?`.
ClientNew(a, resp) ==
    LET w == FetchWellKnowns(resp)
    IN IF w.ok THEN Ok([ Placeholder(a) EXCEPT !.well_knowns = w.val ]) ELSE Err(w.val)

\* Option::get_or_insert: a state already stored is kept.
StoreStateIfNone(c, generated) ==
    IF c.state # None THEN c ELSE [ c EXCEPT !.state = Some(generated) ]

\* generate_state takes &self and no other input: the token is the
\* generator's choice.  build_authorization_url stores it.
StoreState(c, generated) == [ c EXCEPT !.state = Some(generated) ]

\* The URL build_authorization_url formats, by its parts in order.
AuthorizationUrl(c, st) ==
    [ endpoint |-> c.well_knowns.auth_url, response_type |-> "code",
      client_id |-> c.client_id, redirect_uri |-> c.redirect_url,
      scope |-> c.scope, state |-> st, access_type |-> "offline" ]

\* ---- the authorization URL as text ----
\* A text is a sequence of characters.  A run of letters that the code
\* writes or reads as a whole ("client_id", "code", an endpoint) is one
\* element; "?", "&", "=", "#", " ", "+" and "%20" are elements of their own.
Alphanumeric == { "A", "z", "0" }

\* The characters of the state tokens generate_state can return.
StateText(st) ==
    IF st = "S1" THEN [ i \in 1 .. STATE_LEN |-> IF i % 2 = 1 THEN "A" ELSE "0" ]
    ELSE [ i \in 1 .. STATE_LEN |-> "z" ]

\* [String]::join(sep)
RECURSIVE Join(_, _)
Join(list, sep) ==
    IF list = << >> THEN << >>
    ELSE IF Len(list) = 1 THEN list[1]
    ELSE list[1] \o sep \o Join(Tail(list), sep)

\* The query with redirect_uri before client_id.
FormatAuthorizationUrlSwapped(c, state) ==
    c.well_knowns.auth_url
        \o << "?", "response_type", "=", "code" >>
        \o << "&", "redirect_uri", "=" >> \o c.redirect_url
        \o << "&", "client_id", "=" >> \o c.client_id
        \o << "&", "scope", "=" >> \o Join(c.scope, << " " >>)
        \o << "&", "state", "=" >> \o state
        \o << "&", "access_type", "=", "offline" >>

\* format!("{}?response_type=code&client_id={}&redirect_uri={}&scope={}&state={}")
\* and push_str("&access_type=offline"): the values are written as they are.
FormatAuthorizationUrl(c, state) ==
    c.well_knowns.auth_url
        \o << "?", "response_type", "=", "code" >>
        \o << "&", "client_id", "=" >> \o c.client_id
        \o << "&", "redirect_uri", "=" >> \o c.redirect_url
        \o << "&", "scope", "=" >> \o Join(c.scope, << " " >>)
        \o << "&", "state", "=" >> \o state
        \o << "&", "access_type", "=", "offline" >>

\* The characters of a token, by class: "h" is a base64url character of
\* a segment whose bytes are JSON text, "x" any other base64url character,
\* "!" a character outside the base64url alphabet, "." the separator.
TokenAlphabet == { "h", "x", "!", "." }
Base64Alphabet == { "h", "x" }

\* The id_token strings in play, character by character.
Chars(s) ==
    CASE s = "hdr.pld.sig" -> << "h", "h", ".", "h", "h", ".", "x", "x" >>
      [] s = "hdr.pld." -> << "h", "h", ".", "h", "h", "." >>
      [] s = "hdr.pld" -> << "h", "h", ".", "h", "h" >>
      [] s = "hdr.pld.sig.x" -> << "h", "h", ".", "h", "h", ".", "x", "x", ".", "x", "x" >>
      [] s = "!!.pld.sig" -> << "!", "!", ".", "h", "h", ".", "x", "x" >>
      [] s = "hdr.!!.sig" -> << "h", "h", ".", "!", "!", ".", "x", "x" >>
      [] s = "raw.pld.sig" -> << "x", "x", ".", "h", "h", ".", "x", "x" >>
      [] s = "hdr.raw.sig" -> << "h", "h", ".", "x", "x", ".", "x", "x" >>
      [] OTHER -> << "x", "x" >>

\* str::split('.'): the segments between the separators, empty ones kept.
RECURSIVE Split(_)
Split(s) ==
    IF \A i \in 1 .. Len(s) : s[i] # "." THEN << s >>
    ELSE LET d == CHOOSE i \in 1 .. Len(s) :
                      s[i] = "." /\ \A j \in 1 .. i - 1 : s[j] # "."
         IN << SubSeq(s, 1, d - 1) >> \o Split(SubSeq(s, d + 1, Len(s)))

\* URL_SAFE_NO_PAD.decode: fails on a character outside the alphabet and on
\* a length of 1 mod 4; otherwise 4 characters give 3 bytes, 3 give 2 and 2
\* give 1.  A byte is named after the characters it came from.
Base64Decode(seg) ==
    IF (\E i \in 1 .. Len(seg) : seg[i] \notin Base64Alphabet) \/ Len(seg) % 4 = 1
    THEN Err(<< >>)
    ELSE Ok(SubSeq(seg, 1, (3 * Len(seg)) \div 4))

\* serde_json::from_slice: empty input is an error (EOF), and so are bytes
\* that are not JSON text.
from_slice(bytes) ==
    IF bytes # << >> /\ \A i \in 1 .. Len(bytes) : bytes[i] = "h"
    THEN Ok(bytes) ELSE Err(<< >>)

\* A decoder that also decodes the signature segment.
decode_jwt_checking_signature(token) ==
    LET parts == Split(token) IN
    IF Len(parts) # 3
    THEN Err([ what |-> "Invalid JWT format", header |-> << >>, payload |-> << >> ])
    ELSE IF ~Base64Decode(parts[1]).ok \/ ~Base64Decode(parts[2]).ok
            \/ ~Base64Decode(parts[3]).ok
    THEN Err([ what |-> "base64", header |-> << >>, payload |-> << >> ])
    ELSE IF ~from_slice(Base64Decode(parts[1]).val).ok
            \/ ~from_slice(Base64Decode(parts[2]).val).ok
    THEN Err([ what |-> "json", header |-> << >>, payload |-> << >> ])
    ELSE Ok([ what |-> "", header |-> from_slice(Base64Decode(parts[1]).val).val,
              payload |-> from_slice(Base64Decode(parts[2]).val).val ])

\* jwt_client::decode_jwt_without_verification
decode_jwt_without_verification(token) ==
    LET parts == Split(token) IN
    IF Len(parts) # 3
    THEN Err([ what |-> "Invalid JWT format", header |-> << >>, payload |-> << >> ])
    ELSE IF ~Base64Decode(parts[1]).ok \/ ~Base64Decode(parts[2]).ok
    THEN Err([ what |-> "base64", header |-> << >>, payload |-> << >> ])
    ELSE IF ~from_slice(Base64Decode(parts[1]).val).ok
            \/ ~from_slice(Base64Decode(parts[2]).val).ok
    THEN Err([ what |-> "json", header |-> << >>, payload |-> << >> ])
    ELSE Ok([ what |-> "", header |-> from_slice(Base64Decode(parts[1]).val).val,
              payload |-> from_slice(Base64Decode(parts[2]).val).val ])

\* The best-effort decode in get_token and refresh_token: what is printed.
DecodeForDisplay(json) ==
    IF as_str(Index(json, "id_token")) # None
    THEN Some(decode_jwt_without_verification(Chars(as_str(Index(json, "id_token"))[1])))
    ELSE None

\* The struct expression that ends get_token and refresh_token.
ParseTokenResponse(json) ==
    IF as_str(Index(json, "access_token")) = None THEN Err(MissingField("access_token"))
    ELSE IF as_str(Index(json, "token_type")) = None THEN Err(MissingField("token_type"))
    ELSE IF as_u64(Index(json, "expires_in")) = None THEN Err(MissingField("expires_in"))
    ELSE Ok([ access_token |-> as_str(Index(json, "access_token"))[1],
              token_type |-> as_str(Index(json, "token_type"))[1],
              expires_in |-> as_u64(Index(json, "expires_in"))[1],
              refresh_token |-> as_str(Index(json, "refresh_token")),
              scope |-> as_str(Index(json, "scope")),
              id_token |-> as_str(Index(json, "id_token")) ])

\* The body is parsed whatever the status; the status counts only when the
\* body is not a token response.
TokenResultBodyFirst(what, resp) ==
    IF resp = None THEN Err(NetworkError)
    ELSE IF ParseTokenResponse(resp[1].body).ok THEN ParseTokenResponse(resp[1].body)
    ELSE IF ~is_success(resp[1].status)
    THEN Err(InvalidResponse(what, resp[1].status, resp[1].body))
    ELSE ParseTokenResponse(resp[1].body)

\* The decode error is returned with `?` (OidcError::DecodingError).
TokenResultStrict(what, resp) ==
    IF resp = None THEN Err(NetworkError)
    ELSE IF ~is_success(resp[1].status)
    THEN Err(InvalidResponse(what, resp[1].status, resp[1].body))
    ELSE IF DecodeForDisplay(resp[1].body) # None /\ ~DecodeForDisplay(resp[1].body)[1].ok
    THEN Err([ kind |-> "DecodingError", what |-> "id_token", status |-> 0, body |-> Null ])
    ELSE ParseTokenResponse(resp[1].body)

\* get_token / refresh_token after send(): status check, display decode,
\* struct.  The decode only prints; its result does not enter the value.
TokenResult(what, resp) ==
    IF resp = None THEN Err(NetworkError)
    ELSE IF ~is_success(resp[1].status)
    THEN Err(InvalidResponse(what, resp[1].status, resp[1].body))
    ELSE ParseTokenResponse(resp[1].body)

\* What the two operations print about the id_token.
TokenDisplay(resp) ==
    IF resp # None /\ is_success(resp[1].status) THEN DecodeForDisplay(resp[1].body) ELSE None

\* get_user_info after send(): status check, then the JSON verbatim.
UserInfoResult(resp) ==
    IF resp = None THEN Err(NetworkError)
    ELSE IF ~is_success(resp[1].status)
    THEN Err(InvalidResponse("User info request failed", resp[1].status, resp[1].body))
    ELSE Ok(resp[1].body)

\* The form refresh_token posts.
RefreshForm(c, refresh_token) ==
    [ grant_type |-> "refresh_token", refresh_token |-> refresh_token,
      client_id |-> c.client_id, client_secret |-> c.client_secret ]

\* ------------------------------------------------- the environment -----
\* Command lines: any redirect URL, --state given or not, --refresh-token
\* given or not.
AllArgs ==
    { [ issuer |-> "https://idp", client_id |-> "abc", client_secret |-> "secret",
        redirect_url |-> r, scope |-> << "openid" >>, state |-> st, refresh_token |-> rt ] :
      r \in RedirectUrls,
      st \in { None } \cup { Some(t) : t \in StateTokens },
      rt \in { None, Some("R1") } }

\* A complete discovery document and a complete token response.
GoodDoc ==
    [ authorization_endpoint |-> Str("https://idp/auth"),
      token_endpoint |-> Str("https://idp/token"),
      userinfo_endpoint |-> Str("https://idp/userinfo"),
      jwks_uri |-> Str("https://idp/jwks") ]

GoodToken ==
    [ access_token |-> Str("AT1"), token_type |-> Str("Bearer"),
      expires_in |-> PosInt("3600"), refresh_token |-> Str("R2"),
      scope |-> Absent, id_token |-> Str("hdr.pld.sig") ]

UserDoc == [ sub |-> Str("user-1") ]

\* What the provider answers during a run of the program.
DiscoveryAnswers == { Some([ status |-> 200, body |-> GoodDoc ]),
                      Some([ status |-> 404, body |-> GoodDoc ]) }
TokenAnswers == { Some([ status |-> 200, body |-> GoodToken ]),
                  Some([ status |-> 200, body |-> [ GoodToken EXCEPT !.access_token = Str("AT2") ] ]),
                  Some([ status |-> 400, body |-> GoodToken ]) }
UserInfoAnswers == { Some([ status |-> 200, body |-> UserDoc ]),
                     Some([ status |-> 401, body |-> UserDoc ]) }

\* An HTTP request as the log keeps it.
HttpRequest(name, url, payload) == [ op |-> name, url |-> url, payload |-> payload ]

\* A main that always takes the authorization-code branch.
FlowForCodeOnly(a) == "build_url"

\* main: `if let Some(refresh_token) = &args.refresh_token { .. } else { .. }`
FlowFor(a) == IF a.refresh_token # None THEN "refresh" ELSE "build_url"

\* println! and eprintln! of main.rs.
Out(text) == [ stream |-> "stdout", text |-> text ]
ErrOut(text) == [ stream |-> "stderr", text |-> text ]

\* A user-info failure returned with `?`.
AfterUserInfoChecked(r) == IF r.ok THEN "done" ELSE "failed"

\* `if let Ok(user_info) = client.get_user_info(..) { println } else
\* { eprintln }` and then Ok(()).
AfterUserInfo(r) == "done"

\* A launch failure returned with `?`.
AfterBrowserChecked(ok) == IF ok THEN "listen" ELSE "failed"

\* `if open::that(auth_url).is_err() { eprintln!(..) }`: the flow goes on.
AfterBrowser(ok) == "listen"

\* The requests each operation sends, in order: one each, no retry.
NewRequests(a) ==
    << HttpRequest("discovery", a.issuer, [ path |-> "/.well-known/openid-configuration" ]) >>

\* A client that looks the endpoints up again before the token request.
GetTokenRequestsRediscover(c, code) ==
    << HttpRequest("discovery", c.issuer, [ path |-> "/.well-known/openid-configuration" ]),
       HttpRequest("get_token", c.well_knowns.token_url, TokenForm(c, code)) >>

\* A client that sends the token request again.
GetTokenRequestsRetry(c, code) ==
    << HttpRequest("get_token", c.well_knowns.token_url, TokenForm(c, code)),
       HttpRequest("get_token", c.well_knowns.token_url, TokenForm(c, code)) >>

GetTokenRequests(c, code) ==
    << HttpRequest("get_token", c.well_knowns.token_url, TokenForm(c, code)) >>

RefreshTokenRequests(c, refresh_token) ==
    << HttpRequest("refresh_token", c.well_knowns.token_url, RefreshForm(c, refresh_token)) >>

GetUserInfoRequests(c, access_token) ==
    << HttpRequest("get_user_info", c.well_knowns.user_info_url, [ bearer |-> access_token ]) >>

\* ------------------------------------------------------------- Init -----
\* main after Args::parse.
Init ==
    /\ args \in AllArgs
    /\ client = Placeholder(args)
    /\ mainPc = "new"
    /\ http_log = << >>
    /\ urls = << >>
    /\ token_endpoint_response = None
    /\ user_info = None
    /\ output = << >>
    /\ op = "none"
    /\ response = None
    /\ outcome = None
    /\ browser_ok = None
    /\ code_tx = None
    /\ shutdown_tx = None
    /\ code_ch = << >>
    /\ shutdown_ch = << >>
    /\ code_by = << >>
    /\ shutdown_by = << >>
    /\ server = "unbound"
    /\ req = [ h \in Handlers |-> None ]
    /\ hpc = [ h \in Handlers |-> "idle" ]
    /\ reply = [ h \in Handlers |-> None ]
    /\ listenResult = None
    /\ tokenReq = None

\* ---------------------------------------------------------- main.rs -----
\* OidcClient::new(..)? in main: one discovery request, then the branch.
\* args.state is moved into the call.
New ==
    /\ mainPc = "new"
    /\ http_log' = http_log \o NewRequests(args)
    /\ \E resp \in DiscoveryAnswers :
          LET r == ClientNew(args, resp) IN
          /\ client' = IF r.ok THEN r.val ELSE client
          /\ mainPc' = IF r.ok THEN FlowFor(args) ELSE "failed"
          /\ output' = IF r.ok THEN Append(output, Out("Well-Known Endpoints")) ELSE output
    /\ args' = [ args EXCEPT !.state = None ]
    /\ UNCHANGED << browser_ok, listenerVars, listenResult, tokenReq, urls,
                    token_endpoint_response, user_info, probeVars >>

\* client.build_authorization_url(): generate_state() and store it.
BuildAuthorizationUrl ==
    /\ mainPc = "build_url"
    /\ \E generated \in StateTokens :
          /\ client' = StoreState(client, generated)
          /\ urls' = Append(urls, AuthorizationUrl(client, generated))
    /\ output' = Append(output, Out("Authorization URL"))
    /\ mainPc' = "open_browser"
    /\ UNCHANGED << browser_ok, listenerVars, listenResult, tokenReq, args, http_log,
                    token_endpoint_response, user_info, probeVars >>

\* open::that(auth_url): a failure is only reported.
OpenBrowser ==
    /\ mainPc = "open_browser"
    /\ \E ok \in BOOLEAN :
          /\ browser_ok' = Some(ok)
          /\ mainPc' = AfterBrowser(ok)
          /\ output' = IF ok THEN output
                        ELSE Append(output, ErrOut("Failed to open auth URL in browser"))
    /\ UNCHANGED << client, listenerVars, listenResult, tokenReq >>
    /\ UNCHANGED << args, http_log, urls, token_endpoint_response, user_info, probeVars >>

\* listen() up to the await: channels created, server bound and spawned.
ListenStart ==
    /\ mainPc = "listen"
    /\ code_tx' = Some("code_tx")
    /\ shutdown_tx' = Some("shutdown_tx")
    /\ code_ch' = << >>
    /\ shutdown_ch' = << >>
    /\ server' = "running"
    /\ mainPc' = "awaiting"
    /\ UNCHANGED << client, browser_ok, code_by, shutdown_by, req, hpc, reply,
                    listenResult, tokenReq >>
    /\ UNCHANGED << flowVars, probeVars >>

\* listen() resumes from code_rx.await and returns; main applies `?`.
ListenReturn ==
    /\ mainPc = "awaiting"
    /\ LET r == ListenMatch(RecvCode(code_ch, RouteDropped /\ code_tx # None)) IN
         /\ r # None
         /\ listenResult' = r
         /\ mainPc' = IF r[1].ok THEN "get_token" ELSE "failed"
         /\ output' = IF r[1].ok THEN Append(output, Out("Authorization code"))
                       ELSE Append(output, ErrOut("Failed to get auth code"))
    /\ UNCHANGED << client, browser_ok, listenerVars, tokenReq >>
    /\ UNCHANGED << args, http_log, urls, token_endpoint_response, user_info, probeVars >>

\* client.get_token(code) and `?`: one POST to the token endpoint.
GetToken ==
    /\ mainPc = "get_token"
    /\ tokenReq' = Some(TokenForm(client, listenResult[1].val))
    /\ http_log' = http_log \o GetTokenRequests(client, listenResult[1].val)
    /\ \E resp \in TokenAnswers :
          /\ token_endpoint_response' = Some(TokenResult("Token request failed", resp))
          /\ mainPc' = IF TokenResult("Token request failed", resp).ok
                       THEN "user_info" ELSE "failed"
          /\ output' = IF TokenResult("Token request failed", resp).ok
                        THEN Append(output, Out("Token Endpoint Response")) ELSE output
    /\ UNCHANGED << client, browser_ok, listenerVars, listenResult, args, urls, user_info,
                    probeVars >>

\* handle_refresh_token: client.refresh_token(refresh_token) and `?`.
RefreshToken ==
    /\ mainPc = "refresh"
    /\ http_log' = http_log \o RefreshTokenRequests(client, args.refresh_token[1])
    /\ \E resp \in TokenAnswers :
          /\ token_endpoint_response' = Some(TokenResult("Token refresh request failed", resp))
          /\ mainPc' = IF TokenResult("Token refresh request failed", resp).ok
                       THEN "user_info" ELSE "failed"
          /\ output' = IF TokenResult("Token refresh request failed", resp).ok
                        THEN Append(output, Out("Token Endpoint Response")) ELSE output
    /\ UNCHANGED << client, browser_ok, listenerVars, listenResult, tokenReq, args, urls,
                    user_info, probeVars >>

\* Both flows end with client.get_user_info(access_token); an error is
\* reported and the function returns Ok(()).
GetUserInfo ==
    /\ mainPc = "user_info"
    /\ http_log' = http_log \o
                       GetUserInfoRequests(client, token_endpoint_response[1].val.access_token)
    /\ \E resp \in UserInfoAnswers :
          /\ user_info' = Some(UserInfoResult(resp))
          /\ mainPc' = AfterUserInfo(UserInfoResult(resp))
          /\ output' = IF UserInfoResult(resp).ok THEN Append(output, Out("User Info"))
                        ELSE Append(output, ErrOut("Failed to get user info"))
    /\ UNCHANGED << client, browser_ok, listenerVars, listenResult, tokenReq, args, urls,
                    token_endpoint_response, probeVars >>

\* ------------------------------------------------ callback_listener -----
\* The provider redirects the browser to the registered redirect_uri with
\* some query; requests are numbered in their order of arrival.  One
\* reaches handle_callback iff the server is accepting and the target is
\* the bound socket and route; otherwise it is refused or answered 404.
Request(h) ==
    /\ hpc[h] = "idle"
    /\ \A g \in Handlers : g < h => hpc[g] # "idle"
    /\ server # "unbound"
    /\ \E params \in AllParams :
         /\ req' = [ req EXCEPT ![h] = Some([ target |-> client.redirect_url,
                                              params |-> params ]) ]
         /\ hpc' = [ hpc EXCEPT ![h] =
                       IF server = "running" /\ Routes(client.redirect_url)
                       THEN "recv" ELSE "unreached" ]
    /\ UNCHANGED << client, mainPc, browser_ok, code_tx, shutdown_tx, code_ch, shutdown_ch,
                    code_by, shutdown_by, server, reply, listenResult, tokenReq >>
    /\ UNCHANGED << flowVars, probeVars >>

Install(s) ==
    /\ code_tx' = s.code_tx
    /\ shutdown_tx' = s.shutdown_tx
    /\ code_ch' = s.code_ch
    /\ shutdown_ch' = s.shutdown_ch

\* handle_callback, code present: lines 54-60.
HandleCode(h) ==
    /\ hpc[h] = "recv"
    /\ CodeParam(req[h][1].params) # None
    /\ LET r == SendCode(req[h][1].params, Chans, CodeRxAlive) IN
         /\ Install(r.s)
         /\ code_by' = IF r.called THEN Append(code_by, h) ELSE code_by
    /\ hpc' = [ hpc EXCEPT ![h] = "code_done" ]
    /\ UNCHANGED << client, mainPc, browser_ok, shutdown_by, server, req, reply,
                    listenResult, tokenReq >>
    /\ UNCHANGED << flowVars, probeVars >>

\* handle_callback, code present: lines 61-67.
HandleShutdown(h) ==
    /\ hpc[h] = "code_done"
    /\ LET r == SendShutdown(Chans, ShutdownRxAlive) IN
         /\ Install(r.s)
         /\ shutdown_by' = IF r.called THEN Append(shutdown_by, h) ELSE shutdown_by
    /\ hpc' = [ hpc EXCEPT ![h] = "replied" ]
    /\ reply' = [ reply EXCEPT ![h] = Some(ReplyFor(req[h][1].params)) ]
    /\ UNCHANGED << client, mainPc, browser_ok, code_by, server, req, listenResult, tokenReq >>
    /\ UNCHANGED << flowVars, probeVars >>

\* handle_callback, no code: lines 68-72.
HandleNoCode(h) ==
    /\ hpc[h] = "recv"
    /\ CodeParam(req[h][1].params) = None
    /\ Install(NoCodeEffect(Chans))
    /\ hpc' = [ hpc EXCEPT ![h] = "replied" ]
    /\ reply' = [ reply EXCEPT ![h] = Some(ReplyFor(req[h][1].params)) ]
    /\ UNCHANGED << client, mainPc, browser_ok, code_by, shutdown_by, server, req,
                    listenResult, tokenReq >>
    /\ UNCHANGED << flowVars, probeVars >>

\* The graceful-shutdown future `shutdown_rx.await.ok()` resolves, on a
\* value or on a dropped sender alike: the accept loop stops, connections
\* in flight are drained.
ServerShutdown ==
    /\ server = "running"
    /\ RecvShutdown(shutdown_ch, shutdown_tx = None) # None
    /\ server' = "draining"
    /\ UNCHANGED << client, mainPc, browser_ok, code_tx, shutdown_tx, code_ch, shutdown_ch,
                    code_by, shutdown_by, req, hpc, reply, listenResult, tokenReq >>
    /\ UNCHANGED << flowVars, probeVars >>

\* The drained server task completes.
ServerStop ==
    /\ server = "draining"
    /\ \A h \in Handlers : ~InFlight(h)
    /\ server' = "stopped"
    /\ UNCHANGED << client, mainPc, browser_ok, code_tx, shutdown_tx, code_ch, shutdown_ch,
                    code_by, shutdown_by, req, hpc, reply, listenResult, tokenReq >>
    /\ UNCHANGED << flowVars, probeVars >>

\* The spawned server task ends abnormally (its future is dropped): the
\* case listen() reports as "Server closed without receiving an
\* authorization code."
ServerAbort ==
    /\ server = "running"
    /\ server' = "crashed"
    /\ UNCHANGED << client, mainPc, browser_ok, code_tx, shutdown_tx, code_ch, shutdown_ch,
                    code_by, shutdown_by, req, hpc, reply, listenResult, tokenReq >>
    /\ UNCHANGED << flowVars, probeVars >>

\* ------------------------------------------------------------ specs -----
Next ==
    \/ New
    \/ RefreshToken
    \/ GetUserInfo
    \/ BuildAuthorizationUrl
    \/ OpenBrowser
    \/ ListenStart
    \/ ListenReturn
    \/ GetToken
    \/ \E h \in Handlers : Request(h)
    \/ \E h \in Handlers : HandleCode(h)
    \/ \E h \in Handlers : HandleShutdown(h)
    \/ \E h \in Handlers : HandleNoCode(h)
    \/ ServerShutdown
    \/ ServerStop

Spec == Init /\ [][Next]_vars

\* The tokio runtime polls every ready task and the main thread runs on.
Fairness ==
    /\ WF_vars(New)
    /\ WF_vars(RefreshToken)
    /\ WF_vars(GetUserInfo)
    /\ WF_vars(BuildAuthorizationUrl)
    /\ WF_vars(OpenBrowser)
    /\ WF_vars(ListenStart)
    /\ WF_vars(ListenReturn)
    /\ WF_vars(GetToken)
    /\ \A h \in Handlers : WF_vars(HandleCode(h))
    /\ \A h \in Handlers : WF_vars(HandleShutdown(h))
    /\ \A h \in Handlers : WF_vars(HandleNoCode(h))
    /\ WF_vars(ServerShutdown)
    /\ WF_vars(ServerStop)

FairSpec == Spec /\ Fairness

\* The same program with a server task that may die.
NextCrash == Next \/ ServerAbort

SpecCrash == Init /\ [][NextCrash]_vars

\* ------------------------------------------------ the client's API ------
\* A caller that constructs one client and then calls its public
\* operations in any order, at most MaxCalls times; the listener is not
\* involved.  The caller keeps its own copy of the state it supplied.
ClientInit ==
    /\ Init
    /\ args.refresh_token = None
    /\ args.redirect_url = ListenUrl

CallerVars == << browser_ok, listenerVars, listenResult, tokenReq, args,
                 token_endpoint_response, user_info, output, probeVars >>

Calls == Len(urls) + Cardinality({ i \in 1 .. Len(http_log) : http_log[i].op # "discovery" })

CallNew ==
    /\ mainPc = "new"
    /\ http_log' = http_log \o NewRequests(args)
    /\ \E resp \in DiscoveryAnswers :
          LET r == ClientNew(args, resp) IN
          /\ client' = IF r.ok THEN r.val ELSE client
          /\ mainPc' = IF r.ok THEN "ready" ELSE "failed"
    /\ UNCHANGED << urls, CallerVars >>

CallBuildAuthorizationUrl ==
    /\ mainPc = "ready"
    /\ Calls < MaxCalls
    /\ \E generated \in StateTokens :
          /\ client' = StoreState(client, generated)
          /\ urls' = Append(urls, AuthorizationUrl(client, generated))
    /\ UNCHANGED << mainPc, http_log, CallerVars >>

CallGetToken ==
    /\ mainPc = "ready"
    /\ Calls < MaxCalls
    /\ \E code \in Codes : http_log' = http_log \o GetTokenRequests(client, code)
    /\ UNCHANGED << mainPc, client, urls, CallerVars >>

CallRefreshToken ==
    /\ mainPc = "ready"
    /\ Calls < MaxCalls
    /\ http_log' = http_log \o RefreshTokenRequests(client, "R1")
    /\ UNCHANGED << mainPc, client, urls, CallerVars >>

CallGetUserInfo ==
    /\ mainPc = "ready"
    /\ Calls < MaxCalls
    /\ http_log' = http_log \o GetUserInfoRequests(client, "AT1")
    /\ UNCHANGED << mainPc, client, urls, CallerVars >>

ClientNext ==
    \/ CallNew
    \/ CallBuildAuthorizationUrl
    \/ CallGetToken
    \/ CallRefreshToken
    \/ CallGetUserInfo

ClientSpec == ClientInit /\ [][ClientNext]_vars

\* --------------------------------------------------- single calls -------
\* One call of one operation on every answer a provider can give: Init
\* draws the operation and the answer, the action applies the operation.
Statuses == { 200, 299, 300, 404 }

EndpointValues == { Absent, Null, PosInt("1"), Str(""), Str("https://idp/a"), Str("https://idp/b") }

DiscoveryDocs ==
    [ authorization_endpoint : EndpointValues, token_endpoint : EndpointValues,
      userinfo_endpoint : EndpointValues, jwks_uri : EndpointValues ]

JwtStrings == { "hdr.pld.sig", "hdr.pld.", "hdr.pld", "hdr.pld.sig.x",
                "!!.pld.sig", "hdr.!!.sig", "raw.pld.sig", "hdr.raw.sig" }

TokenBodies ==
    [ access_token : { Absent, Null, Str("AT1"), PosInt("1") },
      token_type : { Absent, Str("Bearer"), PosInt("1") },
      expires_in : { Absent, Str("3600"), PosInt("3600"), PosInt("0"), NegInt("-1"),
                     Float("1.5") },
      refresh_token : { Absent, Str("R2"), PosInt("1") },
      scope : { Absent, Str("openid") },
      id_token : { Absent, PosInt("1") } \cup { Str(t) : t \in JwtStrings } ]

UserInfoBodies == { UserDoc, [ sub |-> Null ] }

\* Configured values: every text of at most MaxValueLen characters for the
\* client id, the default and three other redirect URLs, and scope lists.
ValueAlphabet == { "a", "&", "=", "#", " ", "+" }
Values == UNION { [ 1 .. n -> ValueAlphabet ] : n \in 0 .. MaxValueLen }
RedirectTexts == { << "http://127.0.0.1:3030/callback" >>,
                   << "http://h/cb", "?", "a", "=", "a", "&", "a", "=", "a" >>,
                   << "http://h/cb", "#", "a" >>,
                   << "http://h/a", " ", "a" >> }
ScopeLists == { << >>, << << "openid" >> >>, << << "openid" >>, << "profile" >> >>,
                << << "openid", " ", "profile" >> >>, << << "a", "&", "a" >> >>,
                << << "a", "+", "a" >>, << "a", "#" >> >> }
Configs ==
    [ well_knowns : { [ EmptyWellKnowns EXCEPT !.auth_url = << "https://idp/auth" >> ] },
      client_id : Values, redirect_url : RedirectTexts, scope : ScopeLists ]

\* Every token of at most MaxTokenLen characters.
Tokens == UNION { [ 1 .. n -> TokenAlphabet ] : n \in 0 .. MaxTokenLen }

AnswersTo(o) ==
    { None } \cup
    { Some([ status |-> st, body |-> b ]) :
        st \in Statuses,
        b \in CASE o = "new" -> DiscoveryDocs
                [] o \in { "get_token", "refresh_token" } -> TokenBodies
                [] OTHER -> UserInfoBodies }

\* The prefix of the message of InvalidResponse, per operation.
What(o) ==
    CASE o = "get_token" -> "Token request failed"
      [] o = "refresh_token" -> "Token refresh request failed"
      [] OTHER -> "User info request failed"

ProbeArgs ==
    [ issuer |-> "https://idp", client_id |-> "abc", client_secret |-> "secret",
      redirect_url |-> ListenUrl, scope |-> << "openid" >>, state |-> None,
      refresh_token |-> None ]

ProbeInit ==
    /\ op \in { "new", "get_token", "refresh_token", "get_user_info", "decode_jwt",
                 "build_authorization_url" }
    /\ response \in CASE op = "decode_jwt" -> Tokens
                      [] op = "build_authorization_url" -> Configs
                      [] OTHER -> AnswersTo(op)
    /\ outcome = None
    /\ args = ProbeArgs
    /\ client = Placeholder(ProbeArgs)
    /\ mainPc = "call"
    /\ http_log = << >>
    /\ urls = << >>
    /\ token_endpoint_response = None
    /\ user_info = None
    /\ output = << >>
    /\ browser_ok = None
    /\ code_tx = None
    /\ shutdown_tx = None
    /\ code_ch = << >>
    /\ shutdown_ch = << >>
    /\ code_by = << >>
    /\ shutdown_by = << >>
    /\ server = "unbound"
    /\ req = [ h \in Handlers |-> None ]
    /\ hpc = [ h \in Handlers |-> "idle" ]
    /\ reply = [ h \in Handlers |-> None ]
    /\ listenResult = None
    /\ tokenReq = None

ProbeFrame ==
    UNCHANGED << client, browser_ok, listenerVars, listenResult, tokenReq, flowVars,
                 op, response >>

ProbeNew ==
    /\ mainPc = "call" /\ op = "new"
    /\ outcome' = Some([ result |-> ClientNew(args, response), display |-> None ])
    /\ mainPc' = "returned"
    /\ ProbeFrame

ProbeGetToken ==
    /\ mainPc = "call" /\ op = "get_token"
    /\ outcome' = Some([ result |-> TokenResult(What(op), response),
                         display |-> TokenDisplay(response) ])
    /\ mainPc' = "returned"
    /\ ProbeFrame

ProbeRefreshToken ==
    /\ mainPc = "call" /\ op = "refresh_token"
    /\ outcome' = Some([ result |-> TokenResult(What(op), response),
                         display |-> TokenDisplay(response) ])
    /\ mainPc' = "returned"
    /\ ProbeFrame

ProbeGetUserInfo ==
    /\ mainPc = "call" /\ op = "get_user_info"
    /\ outcome' = Some([ result |-> UserInfoResult(response), display |-> None ])
    /\ mainPc' = "returned"
    /\ ProbeFrame

\* build_authorization_url sends nothing.
BuildAuthorizationUrlRequests == << >>

ProbeBuildAuthorizationUrl ==
    /\ mainPc = "call" /\ op = "build_authorization_url"
    /\ \E generated \in StateTokens :
          outcome' = Some([ result |-> Ok([ url |-> FormatAuthorizationUrl(
                                                       response, StateText(generated)),
                                           state |-> Some(StateText(generated)) ]),
                           display |-> None ])
    /\ http_log' = http_log \o BuildAuthorizationUrlRequests
    /\ mainPc' = "returned"
    /\ UNCHANGED << client, browser_ok, listenerVars, listenResult, tokenReq, args, urls,
                    token_endpoint_response, user_info, output, op, response >>

ProbeDecodeJwt ==
    /\ mainPc = "call" /\ op = "decode_jwt"
    /\ outcome' = Some([ result |-> decode_jwt_without_verification(response),
                         display |-> None ])
    /\ mainPc' = "returned"
    /\ ProbeFrame

ProbeNext ==
    \/ ProbeBuildAuthorizationUrl
    \/ ProbeDecodeJwt
    \/ ProbeNew
    \/ ProbeGetToken
    \/ ProbeRefreshToken
    \/ ProbeGetUserInfo

ProbeSpec == ProbeInit /\ [][ProbeNext]_vars

\* =========================================================== claims =====
CodeBearing(h) == req[h] # None /\ ParamsGet(req[h][1].params, "code") # None
CodeOf(h) == req[h][1].params["code"]
Invoked(h) == hpc[h] \in { "recv", "code_done", "replied" }
Handled(h) == hpc[h] \in { "code_done", "replied" }
AckBody == "Authorization code received. You can close this window."
NoCodeBody == "No authorization code found in the query."

\* C1: however many code-bearing requests race, the code sender is used at
\* most once and what listen() returns is the code of the request that took
\* the sender; no other request's code replaces it.
C1_FirstCodeDelivered ==
    /\ Len(code_by) <= 1
    /\ code_ch # << >> => code_by # << >> /\ code_ch = << CodeOf(code_by[1]) >>
    /\ (listenResult # None /\ listenResult[1].ok) =>
           code_by # << >> /\ listenResult[1].val = CodeOf(code_by[1])

\* Two requests with different codes were both answered and listen()
\* returned the code of the one that took the sender.
C1_Witness ==
    /\ listenResult # None /\ listenResult[1].ok
    /\ \E h \in Handlers :
          /\ h # code_by[1]
          /\ CodeBearing(h) /\ hpc[h] = "replied"
          /\ CodeOf(h) # listenResult[1].val

\* C2 as stated: whenever a request with code=c has been handled, listen()
\* returns Ok(c).
C2_EveryHandledCodeReturned ==
    \A h \in Handlers :
        (CodeBearing(h) /\ hpc[h] = "replied" /\ listenResult # None) =>
            listenResult = Some([ ok |-> TRUE, val |-> CodeOf(h) ])

\* C2 amended: once a code-bearing request is in the handler, listen()
\* eventually returns Ok(c) with c exactly the code of the request that took
\* the code sender; and listen() never returns Ok with a value that is not
\* the code of a handled request.
C2_FirstCodeReturned ==
    /\ []( (listenResult # None /\ listenResult[1].ok) =>
              \E h \in Handlers : CodeBearing(h) /\ Handled(h)
                                  /\ CodeOf(h) = listenResult[1].val )
    /\ (\E h \in Handlers : CodeBearing(h) /\ Invoked(h)) ~>
          ( /\ listenResult # None
            /\ code_by # << >>
            /\ listenResult = Some([ ok |-> TRUE, val |-> CodeOf(code_by[1]) ]) )

\* listen() returned the code of a request that also carried a state.
C2_Witness ==
    /\ listenResult # None /\ listenResult[1].ok
    /\ code_by # << >>
    /\ "state" \in DOMAIN req[code_by[1]][1].params
    /\ listenResult[1].val = CodeOf(code_by[1])

\* C3: the shutdown signal is never sent before a code was sent on the code
\* channel, and the accept loop never stops while no code has been sent.
C3_CodeBeforeShutdown ==
    /\ shutdown_by # << >> => code_by # << >> /\ code_ch # << >>
    /\ shutdown_ch # << >> => code_ch # << >>
    /\ server \in { "draining", "stopped" } => code_ch # << >>

\* The shutdown was signalled and the accept loop has stopped.
C3_Witness ==
    /\ shutdown_by # << >>
    /\ server = "stopped"
    /\ code_ch # << >>

\* C4: send is called at most once on the code channel and at most once on
\* the shutdown channel, whatever the interleaving of handlers.
C4_ChannelsConsumedOnce ==
    /\ Len(code_by) <= 1 /\ Len(code_ch) <= 1
    /\ Len(shutdown_by) <= 1 /\ Len(shutdown_ch) <= 1

\* All requests carried a code and were answered; both channels were used.
C4_Witness ==
    /\ \A h \in Handlers : CodeBearing(h) /\ hpc[h] = "replied"
    /\ Len(code_by) = 1
    /\ Len(shutdown_by) = 1

\* C5 as stated: the request that sends the code also sends the shutdown
\* signal; a request that found the code channel consumed does not trigger
\* the shutdown, and is acknowledged without error.
C5_FirstRequestSendsBoth ==
    /\ shutdown_by # << >> => shutdown_by[1] = code_by[1]
    /\ \A h \in Handlers :
          (CodeBearing(h) /\ hpc[h] = "replied") =>
              reply[h] = Some([ ok |-> TRUE, body |-> AckBody ])

\* C5 amended: among the code-bearing requests one sends the code and one
\* sends the shutdown signal, each once and the code first, and both sends
\* are done when any of them is answered; the sender of the shutdown signal
\* may be a request that found the code channel consumed.  Every
\* code-bearing request gets the acknowledgement and none an error.
C5_SendsOnceAndAcknowledged ==
    /\ Len(code_by) <= 1 /\ Len(shutdown_by) <= 1
    /\ shutdown_by # << >> => code_by # << >>
    /\ \A h \in Handlers :
          (CodeBearing(h) /\ hpc[h] = "replied") =>
              /\ reply[h] = Some([ ok |-> TRUE, body |-> AckBody ])
              /\ code_by # << >>
              /\ shutdown_by # << >>

\* The request that found the code channel consumed sent the shutdown.
C5_Witness ==
    /\ code_by # << >> /\ shutdown_by # << >>
    /\ shutdown_by[1] # code_by[1]
    /\ hpc[shutdown_by[1]] = "replied"
    /\ reply[shutdown_by[1]] = Some([ ok |-> TRUE, body |-> AckBody ])

\* C6: a request without `code` gets the informational reply and changes
\* neither channel, neither sender nor the server; and while no code-bearing
\* request has been handled, listen() stays suspended with the server
\* accepting, whatever else has happened.
C6_NoCodeKeepsListening ==
    /\ [][ \A h \in Handlers :
              (hpc[h] = "recv" /\ ~CodeBearing(h) /\ hpc'[h] # "recv") =>
                  /\ reply'[h] = Some([ ok |-> TRUE, body |-> NoCodeBody ])
                  /\ UNCHANGED << code_tx, shutdown_tx, code_ch, shutdown_ch,
                                  code_by, shutdown_by, server, listenResult >> ]_vars
    /\ []( (server # "unbound" /\ \A h \in Handlers : ~(CodeBearing(h) /\ Handled(h))) =>
              (mainPc = "awaiting" /\ listenResult = None /\ server = "running"
               /\ code_tx # None /\ shutdown_tx # None) )

\* Every request of the run lacked a code and was answered; listen() waits.
C6_Witness ==
    /\ \A h \in Handlers : hpc[h] = "replied" /\ ~CodeBearing(h)
    /\ mainPc = "awaiting"
    /\ server = "running"

\* C7: once a code-bearing request is in the handler, the shutdown signal is
\* eventually sent and the accept loop eventually stops accepting.
C7_ListenerTerminates ==
    (\E h \in Handlers : CodeBearing(h) /\ Invoked(h)) ~>
        (shutdown_by # << >> /\ shutdown_ch # << >> /\ server \in { "draining", "stopped" })

\* The server task has completed after a signalled shutdown.
C7_Witness ==
    /\ server = "stopped"
    /\ shutdown_ch # << >>
    /\ \E h \in Handlers : CodeBearing(h) /\ hpc[h] = "replied"

\* C8: listen() returns an error exactly when the code sender was dropped
\* with nothing sent: Err implies no send and a dropped sender, Ok implies
\* a send and carries the value sent.
C8_ErrIffClosedUnsent ==
    listenResult # None =>
        /\ listenResult[1].ok <=> code_by # << >>
        /\ listenResult[1].ok => code_ch # << >> /\ listenResult[1].val = Head(code_ch)
        /\ ~listenResult[1].ok => (RouteDropped /\ code_tx # None /\ code_ch = << >>)

\* listen() failed after the server task died with the sender unused.
C8_Witness ==
    /\ listenResult # None
    /\ ~listenResult[1].ok
    /\ mainPc = "failed"
    /\ server = "crashed"

\* C9 as stated: while the listener is accepting, a code-bearing request sent
\* to exactly the configured redirect_url reaches handle_callback.
C9_ServesRedirectUrl ==
    \A h \in Handlers :
        (server = "running" /\ CodeBearing(h) /\ req[h][1].target = client.redirect_url) =>
            hpc[h] # "unreached"

\* What handle_callback does to the shared state and what it replies are
\* functions of the `code` parameter alone.
StateBlind(s) ==
    \A p1, p2 \in AllParams :
        ParamsGet(p1, "code") = ParamsGet(p2, "code") =>
            /\ HandleCallbackEffect(p1, s, CodeRxAlive, ShutdownRxAlive)
                 = HandleCallbackEffect(p2, s, CodeRxAlive, ShutdownRxAlive)
            /\ ReplyFor(p1) = ReplyFor(p2)

\* C10: the stored CSRF state is never compared with the callback: requests
\* that carry the same code and differ in `state` (stored, other, absent)
\* have the same effect in every reachable state, and the token exchange
\* posts the delivered code whatever state came with it.
C10_StateNeverCompared ==
    /\ StateBlind(Chans)
    /\ tokenReq # None =>
          /\ code_by # << >>
          /\ tokenReq[1].code = CodeOf(code_by[1])

\* The token request carries a code that came with a state other than the
\* stored one.
C10_Witness ==
    /\ tokenReq # None
    /\ code_by # << >>
    /\ "state" \in DOMAIN req[code_by[1]][1].params
    /\ Some(req[code_by[1]][1].params["state"]) # client.state
    /\ tokenReq[1].code = CodeOf(code_by[1])

\* ---- claims about the client's operations ----
LastUrl == urls[Len(urls)]
DiscoveryCount == Cardinality({ i \in 1 .. Len(http_log) : http_log[i].op = "discovery" })

\* C11 as stated: a state supplied at construction is the one the URL
\* carries and the one that stays stored; a state is generated only when
\* none was supplied.
C11_SuppliedStateKept ==
    (args.state # None /\ urls # << >>) =>
        /\ LastUrl.state = args.state[1]
        /\ client.state = args.state

\* C12: after any sequence of build_authorization_url calls the stored state
\* is the state of the URL returned last: every call stores the token it
\* generated, whatever was stored before.
C12_StoredStateIsLastUrl ==
    urls # << >> => client.state = Some(LastUrl.state)

\* Two URLs were issued with different states; the stored state is the
\* second one, the first URL's state is stored no more.
C12_Witness ==
    /\ Len(urls) >= 2
    /\ urls[1].state # LastUrl.state
    /\ client.state = Some(LastUrl.state)
    /\ client.state # Some(urls[1].state)

\* C13: exactly one discovery request is sent, by new and before anything
\* else; after construction no call changes the endpoint set, issuer,
\* client_id, client_secret, redirect_url or scope, and the stored state
\* changes only in a call of build_authorization_url.
C13_DiscoveryOnceFieldsFixed ==
    /\ []( mainPc = "ready" =>
              /\ DiscoveryCount = 1
              /\ http_log[1].op = "discovery"
              /\ client = [ Placeholder(args) EXCEPT
                              !.well_knowns = FetchWellKnowns(Some([ status |-> 200,
                                                                     body |-> GoodDoc ])).val,
                              !.state = client.state ]
              /\ (urls = << >> => client.state = args.state) )
    /\ [][ mainPc = "ready" =>
              /\ client'.well_knowns = client.well_knowns
              /\ client'.issuer = client.issuer
              /\ client'.client_id = client.client_id
              /\ client'.client_secret = client.client_secret
              /\ client'.redirect_url = client.redirect_url
              /\ client'.scope = client.scope
              /\ (client'.state # client.state => Len(urls') = Len(urls) + 1) ]_vars

\* All four operations were called on one client after construction.
C13_Witness ==
    /\ mainPc = "ready"
    /\ urls # << >>
    /\ \A o \in { "get_token", "refresh_token", "get_user_info" } :
          \E i \in 1 .. Len(http_log) : http_log[i].op = o

\* ---- claims about single calls ----
Returned(ops) == op \in ops /\ outcome # None
Success == response # None /\ is_success(response[1].status)
Failure == response # None /\ ~is_success(response[1].status)
TokenOps == { "get_token", "refresh_token" }
RequiredEndpoints ==
    << "authorization_endpoint", "token_endpoint", "userinfo_endpoint", "jwks_uri" >>

\* The first field of a document, in the given order, that is not a JSON
\* string; 0 if all are.
FirstNonString(doc, fields) ==
    LET bad == { i \in 1 .. Len(fields) : doc[fields[i]].t # "str" } IN
    IF bad = {} THEN 0 ELSE CHOOSE i \in bad : \A j \in bad : i <= j

\* C14 as stated: a client that new returns has four non-empty endpoints
\* taken from a 2xx discovery response.
C14_EndpointsNonEmpty ==
    (Returned({ "new" }) /\ outcome[1].result.ok) =>
        /\ Success
        /\ outcome[1].result.val.well_knowns.auth_url # ""
        /\ outcome[1].result.val.well_knowns.token_url # ""
        /\ outcome[1].result.val.well_knowns.user_info_url # ""
        /\ outcome[1].result.val.well_knowns.jwks_url # ""

\* C15: on a 2xx discovery document, discovery returns exactly the four
\* string values if all four fields are strings, and otherwise fails naming
\* the first field (authorization_endpoint, token_endpoint,
\* userinfo_endpoint, jwks_uri) that is absent, null or not a string.
C15_DiscoveryParse ==
    (Returned({ "new" }) /\ Success) =>
        LET doc == response[1].body
            k == FirstNonString(doc, RequiredEndpoints)
            r == outcome[1].result
        IN IF k = 0
           THEN /\ r.ok
                /\ r.val.well_knowns =
                     [ auth_url |-> doc.authorization_endpoint.v,
                       token_url |-> doc.token_endpoint.v,
                       user_info_url |-> doc.userinfo_endpoint.v,
                       jwks_url |-> doc.jwks_uri.v ]
           ELSE /\ ~r.ok
                /\ r.val.what = RequiredEndpoints[k]

\* Discovery failed naming token_endpoint on a document that also lacks a
\* later field.
C15_Witness ==
    /\ Returned({ "new" }) /\ Success
    /\ ~outcome[1].result.ok
    /\ outcome[1].result.val.what = "token_endpoint"
    /\ response[1].body.jwks_uri = Absent
    /\ response[1].body.userinfo_endpoint = Null

\* C16: on a 2xx token response get_token and refresh_token return a
\* TokenResponse iff access_token and token_type are strings and expires_in
\* is a non-negative integer; otherwise MissingField names the first
\* offending field in that order.  The optional fields never matter.
C16_TokenParse ==
    (Returned(TokenOps) /\ Success) =>
        LET b == response[1].body
            r == outcome[1].result
        IN IF b.access_token.t # "str" THEN r = Err(MissingField("access_token"))
           ELSE IF b.token_type.t # "str" THEN r = Err(MissingField("token_type"))
           ELSE IF b.expires_in.t # "posint" THEN r = Err(MissingField("expires_in"))
           ELSE /\ r.ok
                /\ r.val.access_token = b.access_token.v
                /\ r.val.token_type = b.token_type.v
                /\ r.val.expires_in = b.expires_in.v

\* A negative expires_in was rejected as MissingField("expires_in") though
\* the optional fields were malformed too.
C16_Witness ==
    /\ Returned(TokenOps) /\ Success
    /\ response[1].body.expires_in = NegInt("-1")
    /\ response[1].body.refresh_token = PosInt("1")
    /\ outcome[1].result = Err(MissingField("expires_in"))

\* C17: a non-2xx answer to get_token, refresh_token or get_user_info yields
\* InvalidResponse with the status and the body as received, whatever the
\* body; nothing is parsed or decoded.
C17_Non2xxIsInvalidResponse ==
    (Returned(TokenOps \cup { "get_user_info" }) /\ Failure) =>
        /\ outcome[1].result =
             Err(InvalidResponse(What(op), response[1].status, response[1].body))
        /\ outcome[1].display = None

\* A 404 whose body is a complete token response was rejected.
C17_Witness ==
    /\ Returned(TokenOps) /\ Failure
    /\ ParseTokenResponse(response[1].body).ok
    /\ ~outcome[1].result.ok
    /\ outcome[1].result.val.kind = "InvalidResponse"

\* C18: replacing the id_token string of a response by any other string,
\* decodable or not, leaves the outcome of get_token and refresh_token
\* the same (Ok or the same error), and on Ok the id_token field is the raw
\* string of the response.
C18_DecodeFailureNotPropagated ==
    (Returned(TokenOps) /\ response # None /\ response[1].body.id_token.t = "str") =>
        \A t \in JwtStrings :
            LET r == outcome[1].result
                r2 == TokenResult(What(op),
                                  Some([ response[1] EXCEPT !.body.id_token = Str(t) ]))
            IN /\ r2.ok = r.ok
               /\ ~r.ok /\ Success => r2 = r
               /\ r.ok => /\ r.val.id_token = Some(response[1].body.id_token.v)
                          /\ r2.val.id_token = Some(t)
                          /\ [ r2.val EXCEPT !.id_token = r.val.id_token ] = r.val

\* The call succeeded with an id_token that does not decode.
C18_Witness ==
    /\ Returned(TokenOps)
    /\ outcome[1].result.ok
    /\ outcome[1].display # None
    /\ ~outcome[1].display[1].ok
    /\ outcome[1].result.val.id_token = Some("hdr.!!.sig")

\* ---- claims about a run of the program ----
OpsSent == [ i \in 1 .. Len(http_log) |-> http_log[i].op ]
Sent(name) == \E i \in 1 .. Len(http_log) : http_log[i].op = name
DiscoverySucceeded == client.well_knowns # EmptyWellKnowns
ListenerStarted == server # "unbound" \/ code_tx # None \/ listenResult # None
EnteredRefresh == mainPc = "refresh" \/ Sent("refresh_token")
EnteredCode ==
    \/ mainPc \in { "build_url", "open_browser", "listen", "awaiting", "get_token" }
    \/ urls # << >>
Ended == mainPc \in { "done", "failed" }

\* C19 as stated: in any run exactly one of the two flows is entered.
C19_ExactlyOneFlowEntered == Ended => (EnteredRefresh # EnteredCode)

\* C19: never both flows; exactly one once discovery has succeeded and none
\* when it failed; with a refresh token no authorization URL, no browser, no
\* listener and no get_token; without one no refresh_token request; this
\* holds in every state, so also after a failure of the selected flow.
C19_OneFlowByRefreshToken ==
    /\ ~(EnteredRefresh /\ EnteredCode)
    /\ (mainPc # "new" /\ DiscoverySucceeded) => (EnteredRefresh # EnteredCode)
    /\ ~DiscoverySucceeded => ~EnteredRefresh /\ ~EnteredCode
    /\ args.refresh_token # None =>
          /\ ~EnteredCode
          /\ browser_ok = None
          /\ ~ListenerStarted
          /\ tokenReq = None
          /\ ~Sent("get_token")
    /\ args.refresh_token = None => ~EnteredRefresh

\* The refresh flow failed and the run ended there.
C19_Witness ==
    /\ mainPc = "failed"
    /\ EnteredRefresh
    /\ token_endpoint_response # None
    /\ ~token_endpoint_response[1].ok

\* C20: in the authorization-code branch the steps happen in the order
\* discovery, URL build, browser launch, listener start, token request,
\* user-info request; the token request carries the code listen() returned,
\* the user-info request the access_token of the successful token response;
\* a failed browser launch is followed by the listener; a failure of
\* discovery, of the listener or of the token exchange ends the run with no
\* later step.
C20_StepOrder ==
    args.refresh_token = None =>
        /\ OpsSent \in { << >>, << "discovery" >>, << "discovery", "get_token" >>,
                         << "discovery", "get_token", "get_user_info" >> }
        /\ Len(urls) <= 1
        /\ urls # << >> => DiscoverySucceeded
        /\ browser_ok # None => urls # << >>
        /\ ListenerStarted => browser_ok # None
        /\ browser_ok # None => mainPc = "listen" \/ ListenerStarted
        /\ Sent("get_token") =>
              /\ ListenerStarted
              /\ listenResult # None /\ listenResult[1].ok
              /\ http_log[2].payload.code = listenResult[1].val
              /\ http_log[2].url = client.well_knowns.token_url
        /\ Sent("get_user_info") =>
              /\ token_endpoint_response # None /\ token_endpoint_response[1].ok
              /\ http_log[3].payload.bearer = token_endpoint_response[1].val.access_token
        /\ (mainPc # "new" /\ ~DiscoverySucceeded) =>
              /\ mainPc = "failed"
              /\ OpsSent = << "discovery" >> /\ urls = << >>
              /\ browser_ok = None /\ ~ListenerStarted
        /\ (listenResult # None /\ ~listenResult[1].ok) =>
              /\ mainPc = "failed"
              /\ OpsSent = << "discovery" >> /\ token_endpoint_response = None
        /\ (token_endpoint_response # None /\ ~token_endpoint_response[1].ok) =>
              /\ mainPc = "failed"
              /\ OpsSent = << "discovery", "get_token" >> /\ user_info = None

\* The browser could not be launched and the run still went through the
\* listener, the token exchange and the user-info request.
C20_Witness ==
    /\ args.refresh_token = None
    /\ browser_ok = Some(FALSE)
    /\ mainPc = "done"
    /\ OpsSent = << "discovery", "get_token", "get_user_info" >>
    /\ http_log[3].payload.bearer = "AT2"

\* ---- claims about the JWT decoder ----
Dots(t) == Cardinality({ i \in 1 .. Len(t) : t[i] = "." })
LastDot(t) == CHOOSE i \in 1 .. Len(t) : t[i] = "." /\ \A j \in i + 1 .. Len(t) : t[j] # "."
Signatures == UNION { [ 1 .. n -> TokenAlphabet \ { "." } ] : n \in 0 .. 2 }

\* C21: a token with other than two separators (three segments) is rejected
\* as "Invalid JWT format"; for a three-segment token, replacing the third
\* segment by any other one (empty, outside base64, of a bad length) gives
\* the same result.
C21_SignatureIgnored ==
    Returned({ "decode_jwt" }) =>
        /\ Dots(response) # 2 =>
              /\ ~outcome[1].result.ok
              /\ outcome[1].result.val.what = "Invalid JWT format"
        /\ Dots(response) = 2 =>
              /\ outcome[1].result.val.what # "Invalid JWT format"
              /\ \A sig \in Signatures :
                    decode_jwt_without_verification(
                        SubSeq(response, 1, LastDot(response)) \o sig) = outcome[1].result

\* A token whose signature is outside the base64url alphabet was decoded.
C21_Witness ==
    /\ Returned({ "decode_jwt" })
    /\ response = << "h", "h", ".", "h", "h", ".", "!" >>
    /\ outcome[1].result.ok

\* ---- claims about the authorization URL ----
\* The URL as a URL parser reads it (Url::parse, then query_pairs): the
\* fragment starts at the first "#", the query lies between the first "?"
\* and the fragment, pairs are separated by "&", key and value by the first
\* "=", a space is stored as "%20", and "%20" and "+" are read as a space.
First(t, c) ==
    IF \E i \in 1 .. Len(t) : t[i] = c
    THEN CHOOSE i \in 1 .. Len(t) : t[i] = c /\ \A j \in 1 .. i - 1 : t[j] # c
    ELSE Len(t) + 1

PercentEncode(t) == [ i \in 1 .. Len(t) |-> IF t[i] = " " THEN "%20" ELSE t[i] ]
FormDecode(t) == [ i \in 1 .. Len(t) |-> IF t[i] \in { "%20", "+" } THEN " " ELSE t[i] ]
WithoutFragment(t) == SubSeq(t, 1, First(t, "#") - 1)
Query(t) ==
    PercentEncode(SubSeq(WithoutFragment(t), First(WithoutFragment(t), "?") + 1,
                         Len(WithoutFragment(t))))

RECURSIVE Pairs(_)
Pairs(q) ==
    IF q = << >> THEN << >>
    ELSE LET amp == First(q, "&")
             pair == SubSeq(q, 1, amp - 1)
             eq == First(pair, "=")
         IN (IF pair = << >> THEN << >>
             ELSE << [ key |-> FormDecode(SubSeq(pair, 1, eq - 1)),
                       value |-> FormDecode(SubSeq(pair, eq + 1, Len(pair))) ] >>)
            \o Pairs(SubSeq(q, amp + 1, Len(q)))

\* The value of the first pair with the key, if any.
QueryValue(t, key) ==
    LET ps == Pairs(Query(t))
        hits == { i \in 1 .. Len(ps) : ps[i].key = << key >> }
    IN IF hits = {} THEN None
       ELSE Some(ps[CHOOSE i \in hits : \A j \in hits : i <= j].value)

\* C22 as stated: the URL, parsed, has response_type=code and client_id,
\* redirect_uri and scope equal to the configured values, whatever
\* characters these contain.
C22_QueryRoundTrip ==
    Returned({ "build_authorization_url" }) =>
        LET url == outcome[1].result.val.url IN
        /\ QueryValue(url, "response_type") = Some(<< "code" >>)
        /\ QueryValue(url, "client_id") = Some(response.client_id)
        /\ QueryValue(url, "redirect_uri") = Some(response.redirect_url)
        /\ QueryValue(url, "scope") = Some(Join(response.scope, << " " >>))

\* C23: the URL is the authorization endpoint followed by
\* ?response_type=code&client_id=..&redirect_uri=..&scope=..&state=..
\* &access_type=offline in this order, with the values as configured, the
\* scopes joined by one space, and the stored state, which has exactly 32
\* alphanumeric characters; no request is sent.
C23_ExactUrl ==
    Returned({ "build_authorization_url" }) =>
        LET r == outcome[1].result.val IN
        /\ outcome[1].result.ok
        /\ r.state # None
        /\ Len(r.state[1]) = 32
        /\ \A i \in 1 .. Len(r.state[1]) : r.state[1][i] \in Alphanumeric
        /\ r.url = response.well_knowns.auth_url
                     \o << "?", "response_type", "=", "code", "&", "client_id", "=" >>
                     \o response.client_id
                     \o << "&", "redirect_uri", "=" >> \o response.redirect_url
                     \o << "&", "scope", "=" >>
                     \o (IF response.scope = << >> THEN << >>
                         ELSE IF Len(response.scope) = 1 THEN response.scope[1]
                         ELSE response.scope[1] \o << " " >> \o response.scope[2])
                     \o << "&", "state", "=" >> \o r.state[1]
                     \o << "&", "access_type", "=", "offline" >>
        /\ http_log = << >>

\* The URL of the default configuration with two scopes was built.
C23_Witness ==
    /\ Returned({ "build_authorization_url" })
    /\ response.client_id = << "a", "a" >>
    /\ response.redirect_url = << "http://127.0.0.1:3030/callback" >>
    /\ response.scope = << << "openid" >>, << "profile" >> >>
    /\ QueryValue(outcome[1].result.val.url, "scope") = Some(<< "openid", " ", "profile" >>)
    /\ QueryValue(outcome[1].result.val.url, "state") = outcome[1].result.val.state
    /\ QueryValue(outcome[1].result.val.url, "access_type") = Some(<< "offline" >>)

\* ---- claims about the token requests ----
\* C24: every get_token request is a POST to the token endpoint of the
\* discovery document with exactly the fields grant_type=authorization_code,
\* code, redirect_uri, client_id, client_secret; every refresh_token request
\* goes to the same endpoint with exactly grant_type=refresh_token,
\* refresh_token, client_id, client_secret; a call adds exactly one request.
C24_TokenRequests ==
    /\ [](\A i \in 1 .. Len(http_log) :
            /\ http_log[i].op = "get_token" =>
                  /\ http_log[i].url = GoodDoc.token_endpoint.v
                  /\ http_log[i].url = client.well_knowns.token_url
                  /\ DOMAIN http_log[i].payload =
                        { "grant_type", "code", "redirect_uri", "client_id", "client_secret" }
                  /\ http_log[i].payload.grant_type = "authorization_code"
                  /\ http_log[i].payload.code \in Codes
                  /\ http_log[i].payload.redirect_uri = args.redirect_url
                  /\ http_log[i].payload.client_id = args.client_id
                  /\ http_log[i].payload.client_secret = args.client_secret
            /\ http_log[i].op = "refresh_token" =>
                  /\ http_log[i].url = GoodDoc.token_endpoint.v
                  /\ http_log[i].url = client.well_knowns.token_url
                  /\ DOMAIN http_log[i].payload =
                        { "grant_type", "refresh_token", "client_id", "client_secret" }
                  /\ http_log[i].payload.grant_type = "refresh_token"
                  /\ http_log[i].payload.refresh_token = "R1"
                  /\ http_log[i].payload.client_id = args.client_id
                  /\ http_log[i].payload.client_secret = args.client_secret)
    /\ [][(mainPc = "ready" /\ http_log' # http_log) =>
             /\ Len(http_log') = Len(http_log) + 1
             /\ SubSeq(http_log', 1, Len(http_log)) = http_log]_vars

\* Both kinds of token request were sent, get_token twice with two codes.
C24_Witness ==
    /\ Len(http_log) = 4
    /\ http_log[2].op = "get_token" /\ http_log[2].payload.code = "abc123"
    /\ http_log[3].op = "refresh_token"
    /\ http_log[4].op = "get_token" /\ http_log[4].payload.code = ""

\* ---- claims about an empty code ----
EmptyCode(h) == CodeBearing(h) /\ CodeOf(h) = ""

\* C25: a request with `code=` is handled as code-bearing: once handled the
\* code sender is consumed, the request is acknowledged and the shutdown
\* sender is consumed too; if it was the one that took the code sender,
\* listen() returns Ok(""), the token request carries code "" and no other
\* code is ever delivered.
C25_EmptyCodeAccepted ==
    \A h \in Handlers :
        EmptyCode(h) =>
            /\ Handled(h) => code_tx = None
            /\ hpc[h] = "replied" =>
                  /\ reply[h] = Some([ ok |-> TRUE, body |-> AckBody ])
                  /\ shutdown_tx = None
                  /\ Len(shutdown_by) = 1
            /\ code_by = << h >> =>
                  /\ code_ch \in { << >>, << "" >> }
                  /\ listenResult # None => listenResult = Some([ ok |-> TRUE, val |-> "" ])
                  /\ tokenReq # None => tokenReq[1].code = ""
                  /\ \A i \in 1 .. Len(http_log) :
                        http_log[i].op = "get_token" => http_log[i].payload.code = ""

\* The empty code went to the token endpoint, and a later request with a
\* real code was acknowledged without its code being delivered.
C25_Witness ==
    \E h, k \in Handlers :
        /\ h < k
        /\ EmptyCode(h) /\ code_by = << h >>
        /\ CodeBearing(k) /\ CodeOf(k) = "abc123" /\ hpc[k] = "replied"
        /\ reply[k] = Some([ ok |-> TRUE, body |-> AckBody ])
        /\ tokenReq # None /\ tokenReq[1].code = ""
        /\ \E i \in 1 .. Len(http_log) :
              http_log[i].op = "get_token" /\ http_log[i].payload.code = ""

\* ---- claims about the end of a run ----
Printed(line) == \E i \in 1 .. Len(output) : output[i] = line

\* C26: when get_user_info fails after a successful token response, in
\* either flow, the token response has been printed, the failure is
\* reported on stderr as the last line, and the run ends with success; a run
\* ends with an error only if discovery, the listener or the token
\* exchange/refresh failed, and then get_user_info was not called.
C26_UserInfoFailureNotFatal ==
    /\ (user_info # None /\ ~user_info[1].ok) =>
          /\ mainPc = "done"
          /\ token_endpoint_response # None /\ token_endpoint_response[1].ok
          /\ Len(output) >= 2
          /\ output[Len(output)] = ErrOut("Failed to get user info")
          /\ output[Len(output) - 1] = Out("Token Endpoint Response")
          /\ ~Printed(Out("User Info"))
    /\ mainPc = "failed" =>
          /\ \/ ~DiscoverySucceeded
             \/ listenResult # None /\ ~listenResult[1].ok
             \/ token_endpoint_response # None /\ ~token_endpoint_response[1].ok
          /\ user_info = None
          /\ ~Sent("get_user_info")
    /\ mainPc = "done" =>
          /\ token_endpoint_response # None /\ token_endpoint_response[1].ok
          /\ user_info # None

\* The refresh flow ended with success although get_user_info failed.
C26_Witness ==
    /\ args.refresh_token # None
    /\ mainPc = "done"
    /\ user_info # None /\ ~user_info[1].ok
    /\ user_info[1].val.kind = "InvalidResponse"
    /\ output = << Out("Well-Known Endpoints"), Out("Token Endpoint Response"),
                   ErrOut("Failed to get user info") >>

====
